---- MODULE Spec2Model ----
(***************************************************************************)
(* TarzabanG: a model of the segmentation engine (get_ranges) and of the   *)
(* three-stage pipeline controller (slice, extract, translate) of main.py, *)
(* and of the standalone extractor extract_all.py.                         *)
(*                                                                         *)
(* Text is modelled as sequences of character codes (ASCII), so that file  *)
(* names are formatted, parsed and sorted as Python does it.               *)
(***************************************************************************)
EXTENDS Integers, Sequences, FiniteSets, TLC

(***************************************************************************)
(* Bounds of the model.                                                    *)
(***************************************************************************)
\* pages of a source document drawn for the range resolver
MaxPages == 3
\* entries of a table of contents drawn for the range resolver
MaxToc == 2

(***************************************************************************)
(* Text helpers.                                                           *)
(***************************************************************************)
\* argparse leaves an option that was not given as None
None == -1

IsDigit(c) == c >= 48 /\ c <= 57
IsWord(c) == IsDigit(c) \/ (c >= 65 /\ c <= 90) \/ (c >= 97 /\ c <= 122) \/ c = 95
IsSpace(c) == c = 32 \/ (c >= 9 /\ c <= 13)

RECURSIVE Digits(_)
\* str(n) for n >= 0
Digits(n) == IF n < 10 THEN <<48 + n>> ELSE Digits(n \div 10) \o <<48 + (n % 10)>>

\* f"{n:02d}"
Fmt02d(n) == IF n < 10 THEN <<48>> \o Digits(n) ELSE Digits(n)

RECURSIVE ToInt(_)
\* int(s) for a string of digits
ToInt(s) == IF s = <<>> THEN 0 ELSE 10 * ToInt(SubSeq(s, 1, Len(s) - 1)) + (s[Len(s)] - 48)

RECURSIVE Keep(_)
\* re.sub(r'[^\w\s-]', '', text)
Keep(s) ==
    IF s = <<>> THEN <<>>
    ELSE IF IsWord(Head(s)) \/ IsSpace(Head(s)) \/ Head(s) = 45
         THEN <<Head(s)>> \o Keep(Tail(s))
         ELSE Keep(Tail(s))

RECURSIVE LStrip(_)
LStrip(s) == IF s /= <<>> /\ IsSpace(Head(s)) THEN LStrip(Tail(s)) ELSE s

RECURSIVE RStrip(_)
RStrip(s) == IF s /= <<>> /\ IsSpace(s[Len(s)]) THEN RStrip(SubSeq(s, 1, Len(s) - 1)) ELSE s

\* str.strip()
Strip(s) == RStrip(LStrip(s))

\* sanitize(text): drop what is no word character, whitespace or hyphen,
\* strip, and turn each space into an underscore
sanitize(text) ==
    LET kept == Strip(Keep(text))
    IN [i \in 1..Len(kept) |-> IF kept[i] = 32 THEN 95 ELSE kept[i]]

\* "Full_Document"
FullDocument == <<70, 117, 108, 108, 95, 68, 111, 99, 117, 109, 101, 110, 116>>

\* f"Chapter_{n}"
ChapterTitle(n) == <<67, 104, 97, 112, 116, 101, 114, 95>> \o Digits(n)

\* the name of a segment's artifacts without its extension:
\* f"{item['index']:02d}_{sanitize(item['title'])}"
BaseName(item) == Fmt02d(item.index) \o <<95>> \o sanitize(item.title)

\* the length of the run of digits a string starts with
RECURSIVE DigitRun(_)
DigitRun(s) == IF s /= <<>> /\ IsDigit(Head(s)) THEN 1 + DigitRun(Tail(s)) ELSE 0

\* an index parser that reads the first two characters only
ParseIndexTwoDigits(name) ==
    IF Len(name) > 2 /\ IsDigit(name[1]) /\ IsDigit(name[2])
    THEN ToInt(SubSeq(name, 1, 2))
    ELSE 0

\* match = re.match(r'^(\d+)_', name); idx = int(match.group(1)) if match else 0
ParseIndex(name) ==
    LET k == DigitRun(name)
    IN IF k >= 1 /\ Len(name) > k /\ name[k + 1] = 95
       THEN ToInt(SubSeq(name, 1, k))
       ELSE 0

\* the position of the last "." of a string, 0 when it has none
RECURSIVE LastDot(_)
LastDot(f) == IF f = <<>> THEN 0 ELSE IF f[Len(f)] = 46 THEN Len(f)
              ELSE LastDot(SubSeq(f, 1, Len(f) - 1))

\* f.rsplit('.', 1)[0]
RSplitDot(f) == IF LastDot(f) = 0 THEN f ELSE SubSeq(f, 1, LastDot(f) - 1)

\* Python's order of strings: by code point, a proper prefix first
RECURSIVE StrLess(_, _)
StrLess(a, b) ==
    IF b = <<>> THEN FALSE
    ELSE IF a = <<>> THEN TRUE
    ELSE IF Head(a) /= Head(b) THEN Head(a) < Head(b)
    ELSE StrLess(Tail(a), Tail(b))

RECURSIVE SortedStrings(_)
\* sorted(S) for a set of strings
SortedStrings(S) ==
    IF S = {} THEN <<>>
    ELSE LET m == CHOOSE x \in S : \A y \in S \ {x} : StrLess(x, y)
         IN <<m>> \o SortedStrings(S \ {m})

RECURSIVE SortedInts(_)
\* sorted(S) for a set of integers
SortedInts(S) ==
    IF S = {} THEN <<>>
    ELSE LET m == CHOOSE x \in S : \A y \in S : x <= y
         IN <<m>> \o SortedInts(S \ {m})

(***************************************************************************)
(* Source documents.  A document is its page count, its table of contents  *)
(* (level, title, 1-based page) and the set of zero-based pages on which   *)
(* the search for "Chapter" / "CHAPTER" hits.                               *)
(***************************************************************************)
\* titles of table-of-contents entries: "A" and "B. 1"
Titles == {<<65>>, <<66, 46, 32, 49>>}

Modes == {"bookmark", "chapter", "full"}

TocEntries(pages) == [level : 1..2, title : Titles, page : 1..pages]

\* tables of contents in reading order: pages never decrease, and several
\* entries may start on one page
Tocs(pages) ==
    UNION {{t \in [1..n -> TocEntries(pages)] :
                \A i \in 1..(n - 1) : t[i].page <= t[i + 1].page} : n \in 0..MaxToc}

Docs ==
    UNION {[pages : {p}, toc : Tocs(p), markers : SUBSET (0..(p - 1))] : p \in 1..MaxPages}

\* {"index": 1, "title": "Full_Document", "start": 0, "end": len(doc)-1}
FullRange(d) == [index |-> 1, title |-> FullDocument, start |-> 0, end |-> d.pages - 1]

\* bookmark mode that makes segments of the top-level entries only
BookmarkRangesTopLevel(d) ==
    LET top == SelectSeq(d.toc, LAMBDA e : e.level = 1)
    IN IF top = <<>> THEN <<FullRange(d)>>
       ELSE [i \in 1..Len(top) |->
               [index |-> i, title |-> top[i].title, start |-> top[i].page - 1,
                end |-> IF i + 1 <= Len(top) THEN top[i + 1].page - 2 ELSE d.pages - 1]]

\* mode == 'bookmark': one segment per table-of-contents entry
BookmarkRanges(d) ==
    IF d.toc = <<>> THEN <<FullRange(d)>>
    ELSE [i \in 1..Len(d.toc) |->
            LET start_page == d.toc[i].page
                end_page == IF i + 1 <= Len(d.toc) THEN d.toc[i + 1].page - 1 ELSE d.pages
            IN [index |-> i, title |-> d.toc[i].title,
                start |-> start_page - 1, end |-> end_page - 1]]

\* mode == 'chapter': one segment per page with a marker hit
ChapterRanges(d) ==
    IF d.markers = {} THEN <<FullRange(d)>>
    ELSE LET unique_chapters == SortedInts(d.markers)
         IN [i \in 1..Len(unique_chapters) |->
               [index |-> i, title |-> ChapterTitle(i),
                start |-> unique_chapters[i],
                end |-> IF i + 1 <= Len(unique_chapters)
                        THEN unique_chapters[i + 1] - 1 ELSE d.pages - 1]]

\* get_ranges(pdf_path, mode)
get_ranges(d, mode) ==
    IF mode = "bookmark" THEN BookmarkRanges(d)
    ELSE IF mode = "chapter" THEN ChapterRanges(d)
    ELSE <<FullRange(d)>>


(***************************************************************************)
(* The pipeline.  One operator runs the tool on one input, Book.pdf, in    *)
(* the current folder; sections_Book and translations_Book are the two     *)
(* folders get_paths derives from it.                                      *)
(***************************************************************************)
\* invocations of the tools that are followed
MaxRuns == 2

\* the documents found at the input path (the operator may replace the
\* file): three pages, "Chapter" on the second, and the bookmarks "A" on
\* page 1 and "B. 1" on page 2 or on page 3
BookDocs ==
    {[pages |-> 3, markers |-> {1},
      toc |-> <<[level |-> 1, title |-> <<65>>, page |-> 1],
                [level |-> 2, title |-> <<66, 46, 32, 49>>, page |-> p]>>] : p \in {2, 3}}

\* the document the operator starts with
Book == CHOOSE d \in BookDocs : d.toc[2].page = 2

\* "Book": the input's name without its extension
InputBase == <<66, 111, 111, 107>>

Actions == {"slice", "extract", "translate", "prepare", "all"}

\* the values of --index, --start and --end that are tried
FilterVals == {None, 1, 2}

\* the values of --input: the file in the current folder, or the same file
\* in the folder docs below it
Inputs == {"Book.pdf", "docs/Book.pdf"}

\* the parsed command line of main.py (language and key are fixed, and the
\* input is the file in the current folder)
ArgSets ==
    [action : Actions, mode : Modes, index : FilterVals, start : FilterVals, end : FilterVals,
     input : {"Book.pdf"}]

\* extract_all.py takes no arguments; the mode is kept as the one the
\* operator uses with main.py
NoArgs(m) ==
    [action |-> "extract_all", mode |-> m, index |-> None, start |-> None, end |-> None,
     input |-> "Book.pdf"]

VARIABLES
    doc,        \* the document at the input path
    secExists,  \* whether the sections folder exists
    pdfs,       \* Sliced Documents of the sections folder: base name -> content
    txts,       \* Extracted Texts of the sections folder: base name -> content
    outExists,  \* whether the translations folder exists
    outs,       \* Translated Texts: base name -> content
    pc,         \* where the running process is, or how the last one ended
    args,       \* the command line of the current (or last) invocation
    ranges,     \* what get_ranges returned to it
    si,         \* slice loop: position in ranges
    todo,       \* extract / translate loop: the names still to visit
    cur,        \* the base name being written or translated
    payload,    \* translate: the payload chosen for cur
    polls,      \* translate: parity of the number of sleeps of the polling loop
    resp,       \* translate: the response of generate_content for cur
    work,       \* what this invocation did so far (history)
    rerun,      \* whether this invocation repeats a completed "all" run
    runs        \* the number of invocations so far

vars == <<doc, secExists, pdfs, txts, outExists, outs, pc, args, ranges, si, todo,
          cur, payload, polls, resp, work, rerun, runs>>

fsVars == <<secExists, pdfs, txts, outExists, outs>>
loopVars == <<si, todo, cur, payload, polls, resp>>

Terminal == {"idle", "finished", "aborted", "killed", "exited"}

NoPayload == [kind |-> "none", state |-> "none"]

Ev(e, b) == [ev |-> e, base |-> b]

\* a function without one of its arguments (os.remove)
Without(f, b) == [x \in DOMAIN f \ {b} |-> f[x]]

\* is_in_range without its --end test
is_in_range_no_end(idx, a) ==
    IF a.index /= None /\ idx /= a.index THEN FALSE
    ELSE IF a.start /= None /\ idx < a.start THEN FALSE
    ELSE TRUE

\* is_in_range without its --index test
is_in_range_no_index(idx, a) ==
    IF a.start /= None /\ idx < a.start THEN FALSE
    ELSE IF a.end /= None /\ idx > a.end THEN FALSE
    ELSE TRUE

\* is_in_range(idx, args)
is_in_range(idx, a) ==
    IF a.index /= None /\ idx /= a.index THEN FALSE
    ELSE IF a.start /= None /\ idx < a.start THEN FALSE
    ELSE IF a.end /= None /\ idx > a.end THEN FALSE
    ELSE TRUE

\* the input file as a directory listing shows it
InputFile == (InputBase :> [st |-> "complete", from |-> 0, to |-> doc.pages - 1])

\* what the current folder holds for translate's scan when there is no
\* sections folder: the input file, when --input names it without a folder
CwdPdfs == IF args.input = "Book.pdf" THEN InputFile ELSE <<>>

\* folder_to_scan = sec_folder if os.path.exists(sec_folder) else "."
ScanPdfs == IF secExists THEN pdfs ELSE CwdPdfs
ScanTxts == IF secExists THEN txts ELSE <<>>

Init ==
    /\ doc = Book
    /\ secExists = FALSE
    /\ pdfs = <<>>
    /\ txts = <<>>
    /\ outExists = FALSE
    /\ outs = <<>>
    /\ pc = "idle"
    /\ args \in {NoArgs(m) : m \in Modes}
    /\ ranges = <<>>
    /\ si = 0
    /\ todo = <<>>
    /\ cur = <<>>
    /\ payload = NoPayload
    /\ polls = 0
    /\ resp = "none"
    /\ work = {}
    /\ rerun = FALSE
    /\ runs = 0


(***************************************************************************)
(* main.py: start of an invocation.                                        *)
(***************************************************************************)
\* the translate candidates the filter of a selects, as the scan would find them
Selected(a) == {b \in DOMAIN ScanPdfs \cup DOMAIN ScanTxts : is_in_range(ParseIndex(b), a)}

\* main(): args = get_args(); ranges = get_ranges(args.input, args.mode)
StartRun(a) ==
    /\ pc \in Terminal
    /\ runs < MaxRuns
    /\ runs' = runs + 1
    /\ args' = a
    /\ ranges' = get_ranges(doc, a.mode)
    /\ rerun' = (pc = "finished" /\ a = args /\ a.action = "all"
                 /\ \A b \in Selected(a) : b \in DOMAIN outs)
    /\ work' = {}
    /\ pc' = "slice_head"
    /\ si' = 0 /\ todo' = <<>> /\ cur' = <<>> /\ payload' = NoPayload /\ polls' = 0
    /\ resp' = "none"
    /\ UNCHANGED <<doc, fsVars>>

(***************************************************************************)
(* ACTION: SLICE                                                           *)
(***************************************************************************)
\* if args.action in ['slice', 'prepare', 'all']: make the sections folder
SliceStage ==
    /\ pc = "slice_head"
    /\ IF args.action \in {"slice", "prepare", "all"}
       THEN /\ secExists' = TRUE
            /\ si' = 1
            /\ pc' = "slice"
       ELSE /\ pc' = "extract_head"
            /\ UNCHANGED <<secExists, si>>
    /\ UNCHANGED <<doc, pdfs, txts, outExists, outs, args, ranges, todo, cur, payload,
                   polls, resp, work, rerun, runs>>

\* the slice loop without its os.path.exists(path) test
SliceWritesAnyway(item) == is_in_range(item.index, args)

\* whether the slice loop writes the Sliced Document of an item
SliceWrites(item) == is_in_range(item.index, args) /\ BaseName(item) \notin DOMAIN pdfs

\* for item in ranges: skip it, or open the target of new_doc.save(path)
SliceNext ==
    /\ pc = "slice"
    /\ si <= Len(ranges)
    /\ LET item == ranges[si]
           path == BaseName(item)
       IN IF SliceWrites(item)
          THEN /\ pdfs' = (path :> [st |-> "partial", from |-> item.start, to |-> item.end]) @@ pdfs
               /\ cur' = path
               /\ pc' = "slice_save"
               /\ work' = work \cup {Ev("slice", path)}
               /\ UNCHANGED si
          ELSE /\ si' = si + 1
               /\ work' = IF is_in_range(item.index, args)
                          THEN work \cup {Ev("skip_pdf", path)} ELSE work
               /\ UNCHANGED <<pdfs, cur, pc>>
    /\ UNCHANGED <<doc, secExists, txts, outExists, outs, args, ranges, todo, payload,
                   polls, resp, rerun, runs>>

\* new_doc.save(path) returns: the Sliced Document is whole
SliceSave ==
    /\ pc = "slice_save"
    /\ pdfs' = [pdfs EXCEPT ![cur].st = "complete"]
    /\ si' = si + 1
    /\ cur' = <<>>
    /\ pc' = "slice"
    /\ UNCHANGED <<doc, secExists, txts, outExists, outs, args, ranges, todo, payload,
                   polls, resp, work, rerun, runs>>

\* the loop over ranges is over
SliceEnd ==
    /\ pc = "slice"
    /\ si > Len(ranges)
    /\ pc' = "extract_head"
    /\ si' = 0
    /\ UNCHANGED <<doc, fsVars, args, ranges, todo, cur, payload, polls, resp, work, rerun, runs>>

(***************************************************************************)
(* ACTION: EXTRACT                                                         *)
(***************************************************************************)
\* ".pdf"
DotPdf == <<46, 112, 100, 102>>

\* pdfs = sorted([f for f in os.listdir(sec_folder) if f.endswith('.pdf')]),
\* as the base names of the files in that order
SortedPdfNames(folder) ==
    LET files == SortedStrings({b \o DotPdf : b \in DOMAIN folder})
    IN [i \in 1..Len(files) |-> SubSeq(files[i], 1, Len(files[i]) - Len(DotPdf))]

\* if args.action in ['extract', 'prepare', 'all']: list the sections folder,
\* or print that it is not found
ExtractStage ==
    /\ pc = "extract_head"
    /\ IF args.action \in {"extract", "prepare", "all"}
       THEN IF secExists
            THEN /\ todo' = SortedPdfNames(pdfs)
                 /\ pc' = "extract"
                 /\ UNCHANGED work
            ELSE /\ work' = work \cup {Ev("not_found", <<>>)}
                 /\ pc' = "translate_head"
                 /\ UNCHANGED todo
       ELSE /\ pc' = "translate_head"
            /\ UNCHANGED <<todo, work>>
    /\ UNCHANGED <<doc, fsVars, args, ranges, si, cur, payload, polls, resp, rerun, runs>>

\* the text extracted from a Sliced Document
ExtractedText(pdf) == [st |-> "partial", by |-> "extract", from |-> pdf.from, to |-> pdf.to,
                       whole |-> pdf.st = "complete"]

\* the extract loop without its os.path.exists(txt_path) test
ExtractWritesAnyway(name) == is_in_range(ParseIndex(name), args)

\* whether the extract loop writes the Extracted Text of a Sliced Document
ExtractWrites(name) == is_in_range(ParseIndex(name), args) /\ name \notin DOMAIN txts

\* for pdf_name in pdfs: skip it, or read the slice and open the text file.
\* A Sliced Document cut short by a kill either fails to open or gives
\* the text of what is there.
ExtractNext ==
    /\ pc = "extract"
    /\ todo /= <<>>
    /\ LET name == Head(todo)
       IN IF ExtractWrites(name)
          THEN \/ /\ txts' = (name :> ExtractedText(pdfs[name])) @@ txts
                  /\ cur' = name
                  /\ pc' = "extract_write"
                  /\ work' = work \cup {Ev("extract", name)}
                  /\ UNCHANGED todo
               \/ /\ pdfs[name].st = "partial"
                  /\ pc' = "aborted"
                  /\ work' = work \cup {Ev("raised", name)}
                  /\ UNCHANGED <<txts, cur, todo>>
          ELSE /\ todo' = Tail(todo)
               /\ work' = IF is_in_range(ParseIndex(name), args)
                          THEN work \cup {Ev("skip_txt", name)} ELSE work
               /\ UNCHANGED <<txts, cur, pc>>
    /\ UNCHANGED <<doc, secExists, pdfs, outExists, outs, args, ranges, si, payload,
                   polls, resp, rerun, runs>>

\* f.write(text) and the close of the file: the Extracted Text is whole
ExtractWrite ==
    /\ pc = "extract_write"
    /\ txts' = [txts EXCEPT ![cur].st = "complete"]
    /\ todo' = Tail(todo)
    /\ cur' = <<>>
    /\ pc' = "extract"
    /\ UNCHANGED <<doc, secExists, pdfs, outExists, outs, args, ranges, si, payload,
                   polls, resp, work, rerun, runs>>

\* the loop over pdfs is over
ExtractEnd ==
    /\ pc = "extract"
    /\ todo = <<>>
    /\ pc' = "translate_head"
    /\ UNCHANGED <<doc, fsVars, args, ranges, loopVars, work, rerun, runs>>


(***************************************************************************)
(* ACTION: TRANSLATE                                                       *)
(***************************************************************************)
\* the states a file handle of the translation service reports
FileStates == {"PROCESSING", "ACTIVE", "FAILED"}

\* if args.action in ['translate', 'all']: make the translations folder and
\* gather base_names = sorted(list(set(...))) from the folder to scan
TranslateStage ==
    /\ pc = "translate_head"
    /\ IF args.action \in {"translate", "all"}
       THEN /\ outExists' = TRUE
            /\ todo' = SortedStrings(DOMAIN ScanPdfs \cup DOMAIN ScanTxts)
            /\ pc' = "translate"
       ELSE /\ pc' = "finished"
            /\ UNCHANGED <<outExists, todo>>
    /\ UNCHANGED <<doc, secExists, pdfs, txts, outs, args, ranges, si, cur, payload,
                   polls, resp, work, rerun, runs>>

\* the translate loop without its os.path.exists(target_path) test
TranslateAttemptsAnyway(base) == is_in_range(ParseIndex(base), args)

\* whether the translate loop attempts a candidate
TranslateAttempts(base) == is_in_range(ParseIndex(base), args) /\ base \notin DOMAIN outs

\* the payload choice with the two tests in the other order
PayloadKindPdfFirst(base) ==
    IF base \in DOMAIN ScanPdfs THEN "file"
    ELSE IF base \in DOMAIN ScanTxts THEN "text"
    ELSE "none"

\* the payload choice without the fall-back to the Sliced Document
PayloadKindTextOnly(base) == IF base \in DOMAIN ScanTxts THEN "text" ELSE "none"

\* Priority: 1. Refined Text, 2. Raw PDF Segment
PayloadKind(base) ==
    IF base \in DOMAIN ScanTxts THEN "text"
    ELSE IF base \in DOMAIN ScanPdfs THEN "file"
    ELSE "none"

\* a handler that logs the error and raises it again
CaughtRaises(calls) ==
    /\ work' = work \cup calls \cup {Ev("attempt", Head(todo)), Ev("failed", Head(todo))}
    /\ todo' = <<>>
    /\ cur' = <<>>
    /\ payload' = NoPayload
    /\ polls' = 0
    /\ resp' = "none"
    /\ pc' = "aborted"

\* except Exception as e: print and log the error, go on with the next
\* candidate; calls are the service calls the attempt made before it failed
Caught(calls) ==
    /\ work' = work \cup calls \cup {Ev("attempt", Head(todo)), Ev("failed", Head(todo))}
    /\ todo' = Tail(todo)
    /\ cur' = <<>>
    /\ payload' = NoPayload
    /\ polls' = 0
    /\ resp' = "none"
    /\ pc' = "translate"

\* for base in base_names: skip it, or choose its payload: read the text
\* (which may fail), or upload the Sliced Document (which may fail), or
\* pass over a candidate that has neither
TranslateNext ==
    /\ pc = "translate"
    /\ todo /= <<>>
    /\ LET base == Head(todo)
       IN IF ~TranslateAttempts(base)
          THEN /\ todo' = Tail(todo)
               /\ work' = IF is_in_range(ParseIndex(base), args)
                          THEN work \cup {Ev("skip_out", base)} ELSE work
               /\ UNCHANGED <<cur, payload, polls, resp, pc>>
          ELSE IF PayloadKind(base) = "text"
          THEN \/ /\ payload' = [kind |-> "text", state |-> "none"]
                  /\ cur' = base
                  /\ pc' = "generate"
                  /\ work' = work \cup {Ev("attempt", base)}
                  /\ UNCHANGED <<todo, polls, resp>>
               \/ Caught({})
          ELSE IF PayloadKind(base) = "file"
          THEN \/ \E s \in FileStates :
                    /\ payload' = [kind |-> "file", state |-> s]
                    /\ cur' = base
                    /\ pc' = "poll"
                    /\ work' = work \cup {Ev("attempt", base), Ev("upload", base)}
                    /\ UNCHANGED <<todo, polls, resp>>
               \/ Caught({Ev("upload", base)})
          ELSE /\ todo' = Tail(todo)
               /\ work' = work \cup {Ev("attempt", base)}
               /\ UNCHANGED <<cur, payload, polls, resp, pc>>
    /\ UNCHANGED <<doc, fsVars, args, ranges, si, rerun, runs>>

\* while payload.state == "PROCESSING": time.sleep(2);
\* payload = client.files.get(name=payload.name), which may fail
Poll ==
    /\ pc = "poll"
    /\ payload.state = "PROCESSING"
    /\ \/ \E s \in FileStates :
            /\ payload' = [payload EXCEPT !.state = s]
            /\ polls' = 1 - polls
            /\ work' = work \cup {Ev("get", cur)}
            /\ UNCHANGED <<todo, cur, resp, pc>>
       \/ Caught({Ev("get", cur)})
    /\ UNCHANGED <<doc, fsVars, args, ranges, si, rerun, runs>>

\* a polling loop that is left after the upload whatever the handle reports
PollEndEarly ==
    /\ pc = "poll"
    /\ pc' = "generate"
    /\ polls' = 0
    /\ UNCHANGED <<doc, fsVars, args, ranges, si, todo, cur, payload, resp, work, rerun, runs>>

\* the handle is no longer processing: the loop is left
PollEnd ==
    /\ pc = "poll"
    /\ payload.state /= "PROCESSING"
    /\ pc' = "generate"
    /\ polls' = 0
    /\ UNCHANGED <<doc, fsVars, args, ranges, si, todo, cur, payload, resp, work, rerun, runs>>

\* response = client.models.generate_content(...), which may fail, and then
\* open(target_path, 'w'), which creates the Translated Text empty.  The
\* response carries a text ("text") or none ("empty": response.text is None).
Generate ==
    /\ pc = "generate"
    /\ \/ \E r \in {"text", "empty"} :
            /\ resp' = r
            /\ outs' = (cur :> [st |-> "partial", kind |-> payload.kind]) @@ outs
            /\ pc' = "write"
            /\ work' = work \cup {Ev("generate_" \o payload.kind, cur)}
            /\ UNCHANGED <<todo, cur, payload, polls>>
       \/ /\ Caught({Ev("generate_" \o payload.kind, cur)})
          /\ UNCHANGED outs
    /\ UNCHANGED <<doc, secExists, pdfs, txts, outExists, args, ranges, si, rerun, runs>>

\* f.write(response.text): writes the text, or raises when there is none,
\* which leaves the file open() created
TranslateWrite ==
    /\ pc = "write"
    /\ IF resp = "text"
       THEN /\ outs' = [outs EXCEPT ![cur].st = "complete"]
            /\ work' = work \cup {Ev("translated", cur)}
            /\ todo' = Tail(todo)
            /\ cur' = <<>>
            /\ payload' = NoPayload
            /\ resp' = "none"
            /\ pc' = "translate"
            /\ UNCHANGED polls
       ELSE /\ Caught({})
            /\ UNCHANGED outs
    /\ UNCHANGED <<doc, secExists, pdfs, txts, outExists, args, ranges, si, rerun, runs>>

\* the loop over base_names is over: print("Task execution finished.")
TranslateEnd ==
    /\ pc = "translate"
    /\ todo = <<>>
    /\ pc' = "finished"
    /\ UNCHANGED <<doc, fsVars, args, ranges, loopVars, work, rerun, runs>>

(***************************************************************************)
(* extract_all.py                                                          *)
(***************************************************************************)
\* extract_all(): the folder is missing, or its sorted .pdf files are listed
StartExtractAll ==
    /\ pc \in Terminal
    /\ runs < MaxRuns
    /\ runs' = runs + 1
    /\ args' = NoArgs(args.mode)
    /\ ranges' = <<>>
    /\ rerun' = FALSE
    /\ work' = {}
    /\ si' = 0 /\ cur' = <<>> /\ payload' = NoPayload /\ polls' = 0 /\ resp' = "none"
    /\ IF secExists
       THEN /\ todo' = SortedPdfNames(pdfs)
            /\ pc' = "xa"
       ELSE /\ todo' = <<>>
            /\ pc' = "exited"
    /\ UNCHANGED <<doc, fsVars>>

\* if not os.path.exists(txt_path)
XaWrites(name) == name \notin DOMAIN txts

\* for filename in files: skip it, or extract it inside try / except
XaNext ==
    /\ pc = "xa"
    /\ todo /= <<>>
    /\ LET name == Head(todo)
       IN IF XaWrites(name)
          THEN \/ /\ txts' = (name :> ExtractedText(pdfs[name])) @@ txts
                  /\ cur' = name
                  /\ pc' = "xa_write"
                  /\ work' = work \cup {Ev("extract", name)}
                  /\ UNCHANGED todo
               \/ /\ pdfs[name].st = "partial"
                  /\ todo' = Tail(todo)
                  /\ work' = work \cup {Ev("xa_error", name)}
                  /\ UNCHANGED <<txts, cur, pc>>
          ELSE /\ todo' = Tail(todo)
               /\ work' = work \cup {Ev("skip_txt", name)}
               /\ UNCHANGED <<txts, cur, pc>>
    /\ UNCHANGED <<doc, secExists, pdfs, outExists, outs, args, ranges, si, payload,
                   polls, resp, rerun, runs>>

\* f.write(text)
XaWrite ==
    /\ pc = "xa_write"
    /\ txts' = [txts EXCEPT ![cur].st = "complete"]
    /\ todo' = Tail(todo)
    /\ cur' = <<>>
    /\ pc' = "xa"
    /\ UNCHANGED <<doc, secExists, pdfs, outExists, outs, args, ranges, si, payload,
                   polls, resp, work, rerun, runs>>

\* the loop is over
XaEnd ==
    /\ pc = "xa"
    /\ todo = <<>>
    /\ pc' = "exited"
    /\ UNCHANGED <<doc, fsVars, args, ranges, loopVars, work, rerun, runs>>

(***************************************************************************)
(* The environment: the operator and the operating system.                 *)
(***************************************************************************)
\* the process is terminated externally at any point
Kill ==
    /\ pc \notin Terminal
    /\ pc' = "killed"
    /\ si' = 0 /\ todo' = <<>> /\ cur' = <<>> /\ payload' = NoPayload /\ polls' = 0
    /\ resp' = "none"
    /\ work' = {}
    /\ UNCHANGED <<doc, fsVars, args, ranges, rerun, runs>>

\* between invocations the operator refines an Extracted Text
UserEdit(b) ==
    /\ pc \in Terminal
    /\ b \in DOMAIN txts
    /\ txts' = [txts EXCEPT ![b] = [@ EXCEPT !.st = "complete", !.by = "user"]]
    /\ pc' = "idle"
    /\ work' = {}
    /\ UNCHANGED <<doc, secExists, pdfs, outExists, outs, args, ranges, loopVars, rerun, runs>>

\* between invocations the operator deletes a Sliced Document
UserDelete(b) ==
    /\ pc \in Terminal
    /\ b \in DOMAIN pdfs
    /\ pdfs' = Without(pdfs, b)
    /\ pc' = "idle"
    /\ work' = {}
    /\ UNCHANGED <<doc, secExists, txts, outExists, outs, args, ranges, loopVars, rerun, runs>>

\* between invocations the operator replaces the input file
ReplaceSource ==
    /\ pc \in Terminal
    /\ doc' \in BookDocs \ {doc}
    /\ pc' = "idle"
    /\ work' = {}
    /\ UNCHANGED <<fsVars, args, ranges, loopVars, rerun, runs>>

\* the steps of a running process
Step ==
    \/ SliceStage \/ SliceNext \/ SliceSave \/ SliceEnd
    \/ ExtractStage \/ ExtractNext \/ ExtractWrite \/ ExtractEnd
    \/ TranslateStage \/ TranslateNext \/ Poll \/ PollEnd \/ Generate
    \/ TranslateWrite \/ TranslateEnd
    \/ XaNext \/ XaWrite \/ XaEnd

\* what the operator does between invocations
Operator ==
    \/ \E b \in DOMAIN txts : UserEdit(b)
    \/ \E b \in DOMAIN pdfs : UserDelete(b)
    \/ ReplaceSource

\* the command lines of an operator who keeps to one chunking mode
ModeArgs == {a \in ArgSets : a.mode = args.mode}

Next ==
    \/ \E a \in ModeArgs : StartRun(a)
    \/ StartExtractAll
    \/ Step
    \/ Kill

Spec == Init /\ [][Next]_vars

\* command lines with --index alone as the filter
IndexArgs == {a \in ArgSets : a.start = None /\ a.end = None}

\* invocations that run to their end, with what the operator does to the
\* files between them
EditNext ==
    \/ \E a \in IndexArgs \cap ModeArgs : StartRun(a)
    \/ StartExtractAll
    \/ Step
    \/ Operator

EditSpec == Init /\ [][EditNext]_vars


\* invocations in any chunking mode, one after the other on the same
\* folders, any of them killed
MixNext ==
    \/ \E a \in IndexArgs : StartRun(a)
    \/ StartExtractAll
    \/ Step
    \/ Kill

MixSpec == Init /\ [][MixNext]_vars

\* while translate is between two candidates, a file of the sections folder
\* is removed from outside the tool
VanishPdf(b) ==
    /\ pc = "translate"
    /\ secExists
    /\ b \in DOMAIN pdfs
    /\ pdfs' = Without(pdfs, b)
    /\ UNCHANGED <<doc, secExists, txts, outExists, outs, pc, args, ranges, loopVars,
                   work, rerun, runs>>

VanishTxt(b) ==
    /\ pc = "translate"
    /\ secExists
    /\ b \in DOMAIN txts
    /\ txts' = Without(txts, b)
    /\ UNCHANGED <<doc, secExists, pdfs, outExists, outs, pc, args, ranges, loopVars,
                   work, rerun, runs>>

\* invocations that run to their end, with files of the folder translate
\* has listed disappearing before it comes to them
VanishNext ==
    \/ \E a \in IndexArgs \cap ModeArgs : StartRun(a)
    \/ StartExtractAll
    \/ Step
    \/ \E b \in DOMAIN pdfs : VanishPdf(b)
    \/ \E b \in DOMAIN txts : VanishTxt(b)

VanishSpec == Init /\ [][VanishNext]_vars

\* command lines without a filter, the input given with or without a folder
PathArgs ==
    [action : Actions, mode : {args.mode}, index : {None}, start : {None}, end : {None},
     input : Inputs]

\* invocations that run to their end, started in the current folder on the
\* input under either of its paths
PathNext ==
    \/ \E a \in PathArgs : StartRun(a)
    \/ StartExtractAll
    \/ Step

PathSpec == Init /\ [][PathNext]_vars

\* one invocation after the other, none of them killed
FairNext ==
    \/ \E a \in ModeArgs : StartRun(a)
    \/ StartExtractAll
    \/ Step

\* a running process takes its next step
FairSpec == Init /\ [][FairNext]_vars /\ WF_vars(Step)

(***************************************************************************)
(* The range resolver on its own: get_ranges applied to any document of    *)
(* the bounded set, in any mode.                                           *)
(***************************************************************************)
\* a 10-page document with bookmarks of two levels on pages 1, 4 and 8
TenPages ==
    [pages |-> 10, markers |-> {},
     toc |-> <<[level |-> 1, title |-> <<65>>, page |-> 1],
               [level |-> 2, title |-> <<66, 46, 32, 49>>, page |-> 4],
               [level |-> 1, title |-> <<65>>, page |-> 8]>>]

RangeInit ==
    /\ doc \in Docs \cup {TenPages}
    /\ secExists = FALSE
    /\ pdfs = <<>>
    /\ txts = <<>>
    /\ outExists = FALSE
    /\ outs = <<>>
    /\ pc = "idle"
    /\ args = NoArgs("full")
    /\ ranges = <<>>
    /\ si = 0
    /\ todo = <<>>
    /\ cur = <<>>
    /\ payload = NoPayload
    /\ polls = 0
    /\ resp = "none"
    /\ work = {}
    /\ rerun = FALSE
    /\ runs = 0

\* ranges = get_ranges(args.input, args.mode)
Resolve(m) ==
    /\ ranges' = get_ranges(doc, m)
    /\ args' = [args EXCEPT !.mode = m]
    /\ UNCHANGED <<doc, fsVars, pc, loopVars, work, rerun, runs>>

RangeNext == \E m \in Modes : Resolve(m)

RangeSpec == RangeInit /\ [][RangeNext]_vars

(***************************************************************************)
(* The naming of artifacts on its own: the name split gives to a segment   *)
(* of any index and title, as extract and translate later find it.         *)
(***************************************************************************)
\* the largest segment index that is named
MaxIndex == 100

\* titles that are named: "A", "B. 1", "", "7", "1_2", ".", "a.b"
NameTitles == Titles \cup {<<>>, <<55>>, <<49, 95, 50>>, <<46>>, <<97, 46, 98>>}

NameInit ==
    /\ doc = Book
    /\ secExists = FALSE
    /\ pdfs = <<>>
    /\ txts = <<>>
    /\ outExists = FALSE
    /\ outs = <<>>
    /\ pc = "idle"
    /\ args = NoArgs("bookmark")
    /\ ranges = <<>>
    /\ si = 0
    /\ todo = <<>>
    /\ cur = <<>>
    /\ payload = NoPayload
    /\ polls = 0
    /\ resp = "none"
    /\ work = {}
    /\ rerun = FALSE
    /\ runs = 0

\* path = os.path.join(sec_folder, f"{item['index']:02d}_{sanitize(item['title'])}.pdf")
\* for the item (i, t): cur is the file name, without the folder
NameSegment(i, t) ==
    /\ ranges' = <<[index |-> i, title |-> t, start |-> 0, end |-> 0]>>
    /\ cur' = BaseName(ranges'[1]) \o DotPdf
    /\ UNCHANGED <<doc, fsVars, pc, args, si, todo, payload, polls, resp, work, rerun, runs>>

NameNext == \E i \in 1..MaxIndex, t \in NameTitles : NameSegment(i, t)

NameSpec == NameInit /\ [][NameNext]_vars

(***************************************************************************)
(* The pipeline on a long document: MaxIndex pages, each with a bookmark   *)
(* "A", so that bookmark mode gives the segments 1 .. MaxIndex.  The       *)
(* operator works on the segments from 99 on.                              *)
(***************************************************************************)
LongBook ==
    [pages |-> MaxIndex, markers |-> {},
     toc |-> [i \in 1..MaxIndex |-> [level |-> 1, title |-> <<65>>, page |-> i]]]

\* main.py --mode bookmark --start 99, with any action
TailArgs ==
    [action : Actions, mode : {"bookmark"}, index : {None}, start : {99}, end : {None},
     input : {"Book.pdf"}]

LongInit ==
    /\ doc = LongBook
    /\ secExists = FALSE
    /\ pdfs = <<>>
    /\ txts = <<>>
    /\ outExists = FALSE
    /\ outs = <<>>
    /\ pc = "idle"
    /\ args = NoArgs("bookmark")
    /\ ranges = <<>>
    /\ si = 0
    /\ todo = <<>>
    /\ cur = <<>>
    /\ payload = NoPayload
    /\ polls = 0
    /\ resp = "none"
    /\ work = {}
    /\ rerun = FALSE
    /\ runs = 0

LongNext ==
    \/ \E a \in TailArgs : StartRun(a)
    \/ StartExtractAll
    \/ Step

LongSpec == LongInit /\ [][LongNext]_vars


(***************************************************************************)
(* Properties.                                                             *)
(***************************************************************************)
\* the pages of the document that segment i of the resolved list holds
PagesOf(i) == {p \in 0..(doc.pages - 1) : ranges[i].start <= p /\ p <= ranges[i].end}

\* C1: the segments get_ranges returns cover every page of the document
\* exactly once: each page lies in exactly one [start, end], and no segment
\* reaches outside the document.
C1_Coverage ==
    ranges /= <<>> =>
        /\ \A p \in 0..(doc.pages - 1) :
               Cardinality({i \in DOMAIN ranges : p \in PagesOf(i)}) = 1
        /\ \A i \in DOMAIN ranges :
               /\ 0 <= ranges[i].start
               /\ ranges[i].start <= ranges[i].end
               /\ ranges[i].end <= doc.pages - 1

\* what an invocation does to artifacts or asks of the translation service
Doing == {"slice", "extract", "attempt", "upload", "get", "generate_text",
          "generate_file", "translated", "failed"}

Done(e, b) == Ev(e, b) \in work

\* C2: a second identical invocation after an "all" run that finished with
\* every selected candidate translated does no work: no step of it changes a
\* Sliced Document, an Extracted Text or a Translated Text, and it makes no
\* attempt, upload, poll or generate call.
C2_IdempotentResume ==
    [][(rerun /\ pc \notin Terminal) =>
          /\ pdfs' = pdfs /\ txts' = txts /\ outs' = outs
          /\ \A e \in work' : e.ev \notin Doing]_vars

\* C2 witness: the repeated run finished after passing over a Translated
\* Text the first run wrote
C2_Witness ==
    /\ rerun /\ pc = "finished"
    /\ \E b \in DOMAIN outs : outs[b].st = "complete" /\ Done("skip_out", b)
                              /\ Done("skip_txt", b) /\ Done("skip_pdf", b)

\* the Extracted Text a running extract is writing right now
Writing(b) == pc \in {"extract_write", "xa_write"} /\ b = cur

\* C3: no step of a running tool (main.py in any stage, extract_all.py)
\* changes or removes an Extracted Text that exists, other than the one it
\* is creating itself.
C3_ManualEditProtection ==
    [][\A b \in DOMAIN txts :
          (pc \notin Terminal /\ ~Writing(b)) => (b \in DOMAIN txts' /\ txts'[b] = txts[b])]_vars

\* C3 witness: an extract run passed over a text the operator refined,
\* whose Sliced Document was deleted and sliced again from other pages
C3_Witness ==
    \E b \in DOMAIN txts \cap DOMAIN pdfs :
        /\ txts[b].by = "user"
        /\ pdfs[b].st = "complete"
        /\ pdfs[b].from /= txts[b].from
        /\ Done("slice", b)
        /\ Done("skip_txt", b)

\* s <= i <= e, an absent bound being no bound
InBounds(i) ==
    /\ args.start /= None => args.start <= i
    /\ args.end /= None => i <= args.end

SliceRan == args.action \in {"slice", "prepare", "all"}
ExtractRan == args.action \in {"extract", "prepare", "all"} /\ secExists
TranslateRan == args.action \in {"translate", "all"}

\* the artifacts of base name b that differ between this state and the next
Touched(b) ==
    \/ (b \in DOMAIN pdfs') /\ (b \notin DOMAIN pdfs \/ pdfs'[b] /= pdfs[b])
    \/ (b \in DOMAIN txts') /\ (b \notin DOMAIN txts \/ txts'[b] /= txts[b])
    \/ (b \in DOMAIN outs') /\ (b \notin DOMAIN outs \/ outs'[b] /= outs[b])

\* C4: with --start s and --end e (and no --index) a run of main.py
\* creates or changes artifacts of segments with s <= i <= e only, asks the
\* service about no other, and once it has finished every segment in
\* [s, e] went through each stage the action names: it has its Sliced
\* Document, its Extracted Text, and was translated or tried.
C4_RangeFilter ==
    /\ [](args.action /= "extract_all" =>
            /\ \A e \in work : e.ev \in Doing => InBounds(ParseIndex(e.base))
            /\ (pc = "finished" /\ args.index = None) =>
                  /\ SliceRan => \A i \in DOMAIN ranges :
                        InBounds(ranges[i].index) => BaseName(ranges[i]) \in DOMAIN pdfs
                  /\ ExtractRan => \A b \in DOMAIN pdfs :
                        InBounds(ParseIndex(b)) => b \in DOMAIN txts
                  /\ TranslateRan => \A b \in DOMAIN ScanPdfs \cup DOMAIN ScanTxts :
                        InBounds(ParseIndex(b)) => (b \in DOMAIN outs \/ Done("failed", b)))
    /\ [][(pc \notin Terminal /\ args.action /= "extract_all") =>
            \A b \in DOMAIN pdfs' \cup DOMAIN txts' \cup DOMAIN outs' :
                Touched(b) => InBounds(ParseIndex(b))]_vars

\* C4 witness: a finished "all" run with --start 2 translated segment 2 and
\* left segment 1, sliced by an earlier run, without text and translation
C4_Witness ==
    /\ pc = "finished" /\ args.action = "all"
    /\ args.index = None /\ args.start = 2
    /\ \E b \in DOMAIN outs : ParseIndex(b) = 2 /\ Done("translated", b)
    /\ \E b \in DOMAIN pdfs : ParseIndex(b) = 1 /\ b \notin DOMAIN txts /\ b \notin DOMAIN outs

\* C5 as claimed: with --index k every stage processes segment k whatever
\* --start and --end are: a finished run that slices has sliced segment k.
C5_IndexOverridesRange ==
    (pc = "finished" /\ args.index /= None /\ SliceRan) =>
        \A i \in DOMAIN ranges :
            ranges[i].index = args.index => BaseName(ranges[i]) \in DOMAIN pdfs

\* C5 amended: with --index k a run touches no segment but k, and touches k
\* only when k also lies within [start, end]; then a finished run that
\* slices has sliced segment k.
C5_IndexFilter ==
    (args.index /= None /\ args.action /= "extract_all") =>
        /\ \A e \in work : e.ev \in Doing =>
               (ParseIndex(e.base) = args.index /\ InBounds(args.index))
        /\ (pc = "finished" /\ SliceRan /\ InBounds(args.index)) =>
               \A i \in DOMAIN ranges :
                   ranges[i].index = args.index => BaseName(ranges[i]) \in DOMAIN pdfs

\* C5 witness: a finished run with --index 2 --start 1 sliced and extracted
\* segment 2 and nothing of segment 1
C5_Witness ==
    /\ pc = "finished" /\ args.index = 2 /\ args.start = 1
    /\ \E b \in DOMAIN txts : ParseIndex(b) = 2 /\ Done("slice", b) /\ Done("extract", b)
    /\ \A b \in DOMAIN pdfs : ParseIndex(b) /= 1


\* C6 as claimed: a segment whose translate step failed in this run (an
\* exception of upload, get or generate, or a response without text) has no
\* Translated Text.
C6_FailureLeavesNoArtifact ==
    \A e \in work : e.ev = "failed" => e.base \notin DOMAIN outs

\* what translate's scan finds
Candidates == DOMAIN ScanPdfs \cup DOMAIN ScanTxts

\* C7: a failure while translating a candidate never ends the run without
\* its notice, and in a finished run every selected candidate, also those
\* sorted after a failed one, was attempted or already had its Translated
\* Text.
C7_FailureDoesNotAbort ==
    /\ pc = "aborted" => \A e \in work : e.ev /= "failed"
    /\ (pc = "finished" /\ TranslateRan) =>
          \A b \in Candidates :
              (InBounds(ParseIndex(b)) /\ (args.index = None \/ ParseIndex(b) = args.index))
                  => (Done("attempt", b) \/ Done("skip_out", b))

\* C7 witness: a finished run in which a candidate failed and a candidate
\* sorted after it was translated
C7_Witness ==
    /\ pc = "finished"
    /\ \E b1 \in Candidates, b2 \in Candidates :
          /\ StrLess(b1, b2)
          /\ Done("failed", b1)
          /\ Done("attempt", b2) /\ Done("translated", b2)

\* C8: a candidate that has an Extracted Text is never uploaded or
\* submitted as a file: the payload chosen for it is the text, and the
\* Translated Text written for it comes from the text.
C8_PayloadPriority ==
    /\ \A e \in work : e.ev \in {"upload", "get", "generate_file"} => e.base \notin DOMAIN ScanTxts
    /\ (pc \in {"generate", "write"} /\ cur \in DOMAIN ScanTxts) => payload.kind = "text"
    /\ \A b \in DOMAIN outs : (Done("translated", b) /\ b \in DOMAIN ScanTxts) => outs[b].kind = "text"

\* C8 witness: a candidate with both artifacts was translated from its text
C8_Witness ==
    \E b \in DOMAIN txts \cap DOMAIN pdfs :
        /\ secExists
        /\ Done("generate_text", b) /\ Done("translated", b)
        /\ outs[b].st = "complete" /\ outs[b].kind = "text"

\* C9 as claimed: every Sliced Document and Extracted Text a run passes over
\* because its name exists holds the whole output of its stage.
C9_ExistenceProvesCompletion ==
    \A e \in work :
        /\ e.ev = "skip_pdf" => pdfs[e.base].st = "complete"
        /\ e.ev = "skip_txt" => txts[e.base].st = "complete"

\* C10 as claimed: every invocation of main.py that is not killed reaches
\* its completion notice.
C10_AlwaysFinishes == (pc = "slice_head") ~> (pc = "finished")

\* the list in ranges is what get_ranges returned in mode m
Resolved(m) == ranges /= <<>> /\ args.mode = m

\* a single segment with index 1 that spans the whole document
SingleFull ==
    /\ Len(ranges) = 1
    /\ ranges[1].index = 1
    /\ ranges[1].start = 0
    /\ ranges[1].end = doc.pages - 1

\* C11 as claimed: a table of contents with exactly one entry (bookmark
\* mode) and a document with exactly one marker page (chapter mode) resolve
\* to a single segment with index 1 and the range [0, pages - 1].
C11_DegenerateSegmentation ==
    /\ (Resolved("bookmark") /\ Len(doc.toc) = 1) => SingleFull
    /\ (Resolved("chapter") /\ Cardinality(doc.markers) = 1) => SingleFull

\* the document with every level of its table of contents set to 1
Flat(d) == [d EXCEPT !.toc = [i \in DOMAIN d.toc |-> [d.toc[i] EXCEPT !.level = 1]]]

\* C12: in bookmark mode a table of contents of n entries on the 1-based
\* pages p_1 .. p_n gives n segments, segment i with index i, start p_i - 1
\* and end p_(i+1) - 2, the last with end pages - 1, whatever the levels are;
\* an empty table of contents gives the single segment (1, 0, pages - 1).
C12_BookmarkRanges ==
    Resolved("bookmark") =>
        /\ doc.toc = <<>> => SingleFull
        /\ doc.toc /= <<>> =>
              /\ Len(ranges) = Len(doc.toc)
              /\ \A i \in DOMAIN ranges :
                    /\ ranges[i].index = i
                    /\ ranges[i].start = doc.toc[i].page - 1
                    /\ i < Len(doc.toc) => ranges[i].end = doc.toc[i + 1].page - 2
                    /\ i = Len(doc.toc) => ranges[i].end = doc.pages - 1
        /\ ranges = get_ranges(Flat(doc), "bookmark")
        /\ doc = TenPages =>
              [i \in DOMAIN ranges |-> <<ranges[i].index, ranges[i].start, ranges[i].end>>]
                  = <<(<<1, 0, 2>>), (<<2, 3, 6>>), (<<3, 7, 9>>)>>

\* C12 witness: the 10-page document with entries on pages 1, 4 and 8 was
\* resolved in bookmark mode into three segments
C12_Witness == doc = TenPages /\ Resolved("bookmark") /\ Len(ranges) = 3

\* C19 as claimed: every segment get_ranges returns has
\* 0 <= start <= end <= pages - 1, and the indices are 1, 2, ..., n in
\* list order.
C19_SegmentInvariant ==
    ranges /= <<>> =>
        \A i \in DOMAIN ranges :
            /\ ranges[i].index = i
            /\ 0 <= ranges[i].start
            /\ ranges[i].start <= ranges[i].end
            /\ ranges[i].end <= doc.pages - 1

\* the filters of a command line
Filters == {a \in ArgSets : a.action = "all" /\ a.mode = "bookmark"}

\* C20: the index that extract parses out of the file name split wrote
\* for a segment, and the index translate parses out of its base name, is
\* the segment's index, whatever the title; no segment of another index
\* gets the same name; and so is_in_range decides alike in all three stages.
C20_NamingRoundTrip ==
    cur /= <<>> =>
        LET item == ranges[1]
            base == RSplitDot(cur)
        IN /\ ParseIndex(cur) = item.index
           /\ base = BaseName(item)
           /\ ParseIndex(base) = item.index
           /\ \A j \in 1..MaxIndex, t \in NameTitles :
                  j /= item.index => BaseName([index |-> j, title |-> t]) \o DotPdf /= cur
           /\ \A a \in Filters :
                  /\ is_in_range(ParseIndex(cur), a) = is_in_range(item.index, a)
                  /\ is_in_range(ParseIndex(base), a) = is_in_range(item.index, a)

\* C20 witness: segment 100 with the title "1_2" was named "100_1_2.pdf"
C20_Witness ==
    /\ cur = <<49, 48, 48, 95, 49, 95, 50>> \o DotPdf
    /\ ranges[1].index = 100
    /\ ranges[1].title = <<49, 95, 50>>

\* the extract or the translate loop of main.py is at the head of todo
InLoop == pc \in {"extract", "extract_write", "translate", "poll", "generate", "write"}

\* C14 as claimed: extract and translate process the selected segments in
\* ascending numeric index order: the one a loop is at has an index no
\* larger than any selected one still to come, also with 100 segments or more.
C14_AscendingIndexOrder ==
    (InLoop /\ todo /= <<>> /\ is_in_range(ParseIndex(Head(todo)), args)) =>
        \A k \in 2..Len(todo) :
            is_in_range(ParseIndex(todo[k]), args) => ParseIndex(Head(todo)) <= ParseIndex(todo[k])

\* the artifact the running process is creating right now
Creating(kind, b) ==
    /\ b = cur
    /\ \/ kind = "pdf" /\ pc = "slice_save"
       \/ kind = "txt" /\ pc \in {"extract_write", "xa_write"}
       \/ kind = "out" /\ pc = "write"

\* store s of a kind keeps artifact b as it is over the step
Kept(kind, s, t, b) == Creating(kind, b) \/ (b \in DOMAIN t /\ t[b] = s[b])

\* C13: no step of a running tool, in whatever stage, action, mode and
\* filter, after whatever earlier invocations, removes a Sliced Document,
\* an Extracted Text or a Translated Text that exists or changes its
\* content; the only artifact a step changes is the one its own stage
\* created and is still writing.
C13_OneDirectional ==
    [][pc \notin Terminal =>
          /\ \A b \in DOMAIN pdfs : Kept("pdf", pdfs, pdfs', b)
          /\ \A b \in DOMAIN txts : Kept("txt", txts, txts', b)
          /\ \A b \in DOMAIN outs : Kept("out", outs, outs', b)]_vars

\* C13 witness: a finished run in another mode than the artifacts at hand
\* came from passed over a Translated Text that a failed attempt had left
\* and sliced its own segments next to the Sliced Documents that were there
C13_Witness ==
    /\ pc = "finished"
    /\ \E b \in DOMAIN outs : outs[b].st = "partial" /\ Done("skip_out", b)
    /\ \E b1 \in DOMAIN pdfs, b2 \in DOMAIN pdfs :
          /\ Done("slice", b1) /\ ~Done("slice", b2) /\ ~Done("skip_pdf", b2)
          /\ ParseIndex(b1) = ParseIndex(b2)

\* C15: a Sliced Document is submitted to generate only with a handle that
\* was last seen in a state other than PROCESSING: the polling loop is left
\* only then, and every turn of the loop fetches the handle again before
\* it looks at the state the next time.
C15_GenerateAfterProcessing ==
    /\ []((pc = "generate" /\ payload.kind = "file") => payload.state /= "PROCESSING")
    /\ [][
          /\ (Ev("generate_file", cur) \in work' /\ Ev("generate_file", cur) \notin work) =>
                (pc = "generate" /\ payload.kind = "file" /\ payload.state /= "PROCESSING"
                 /\ Done("upload", cur))
          /\ (pc = "poll" /\ pc' = "generate") => payload.state /= "PROCESSING"
          /\ (pc = "poll" /\ pc' = "poll") =>
                (payload.state = "PROCESSING" /\ Ev("get", cur) \in work')
          /\ (pc = "poll" /\ pc' /= "killed" /\ payload' /= payload) => Ev("get", cur) \in work'
       ]_vars

\* C15 witness: a Sliced Document without Extracted Text was uploaded, seen
\* processing, fetched again, seen active and then translated
C15_Witness ==
    \E b \in DOMAIN outs :
        /\ outs[b].kind = "file" /\ outs[b].st = "complete"
        /\ b \notin DOMAIN ScanTxts
        /\ Done("upload", b) /\ Done("get", b) /\ Done("generate_file", b) /\ Done("translated", b)

\* the translate loop takes up the candidate at the head of its list
TakesUp ==
    /\ pc = "translate" /\ todo /= <<>>
    /\ TranslateAttempts(Head(todo))
    /\ (todo' /= todo \/ pc' /= pc)

\* C16: a selected candidate without Translated Text that has a Sliced
\* Document and no Extracted Text is not passed over: translate uploads the
\* Sliced Document, and when upload, polling and generate succeed and the
\* response has a text, that text is written as its Translated Text; a
\* candidate that has neither file any more is passed over with no error,
\* no service call and no Translated Text.
C16_StageIndependence ==
    /\ [](pc = "finished" =>
            \A b \in {e.base : e \in work} :
                (Done("upload", b) /\ ~Done("failed", b)) =>
                    (b \in DOMAIN outs /\ outs[b].st = "complete" /\ outs[b].kind = "file"))
    /\ [][TakesUp =>
            LET base == Head(todo)
            IN /\ (base \notin DOMAIN ScanTxts /\ base \in DOMAIN ScanPdfs) =>
                     Ev("upload", base) \in work'
               /\ base \notin Candidates =>
                     /\ pc' = "translate" /\ todo' = Tail(todo) /\ outs' = outs
                     /\ work' \ work \subseteq {Ev("attempt", base)}
       ]_vars

\* C16 witness: in a finished run one candidate was translated from its
\* Sliced Document, having no Extracted Text, and another, whose files had
\* disappeared, was passed over without error and without Translated Text
C16_Witness ==
    /\ pc = "finished"
    /\ \E b \in DOMAIN outs :
          /\ b \in DOMAIN pdfs /\ b \notin DOMAIN txts
          /\ Done("upload", b) /\ Done("translated", b) /\ outs[b].kind = "file"
    /\ \E e \in work :
          /\ e.ev = "attempt" /\ e.base \notin Candidates /\ e.base \notin DOMAIN outs
          /\ ~Done("failed", e.base)

\* C17 as claimed: in a run of extract or translate that finds no sections
\* folder the stage does nothing: no candidate is taken up, no service
\* operation is called, nothing is written, and a finished run has
\* printed that the folder was not found.
C17_MissingFolderSkipsStage ==
    (~secExists /\ args.action \in {"extract", "translate"}) =>
        /\ \A e \in work : e.ev \notin Doing
        /\ pc = "finished" => Done("not_found", <<>>)

\* the base names of the files of the working location as the claim names
\* it: the sections folder if it exists, else the folder of the input file
WorkingLocation ==
    IF secExists THEN DOMAIN pdfs \cup DOMAIN txts ELSE DOMAIN InputFile

\* C18 as claimed: the list translate gathers holds each base name of the
\* Sliced Documents and Extracted Texts of the working location once, in
\* sorted order, and nothing else, the working location being the sections
\* folder if it exists and else the folder the input file is in.
C18_CandidateSet ==
    [][(pc = "translate_head" /\ pc' = "translate") =>
          /\ {todo'[i] : i \in DOMAIN todo'} = WorkingLocation
          /\ \A i \in DOMAIN todo', j \in DOMAIN todo' : i < j => StrLess(todo'[i], todo'[j])]_vars

====
